---- MODULE Spec2Model ----
(***************************************************************************)
(* A model of PyMVPA's Dataset container (mvpa2/datasets/base.py):         *)
(* the mapper chain kept in the dataset attribute 'mapper'                 *)
(* (_append_mapper, get_mapped, __getitem__), the lookup of attributes     *)
(* across the collections sa, fa and a (find_collection, set_attr,         *)
(* get_attr), the factories from_wizard and from_channeltimeseries, and    *)
(* the HollowSamples placeholder.                                          *)
(*                                                                         *)
(* Column and row indices are 0-based as in Python; the k-th element of a  *)
(* Python sequence s is s[k+1] here.                                       *)
(***************************************************************************)
EXTENDS Integers, Sequences, FiniteSets, TLC

VARIABLES
    heap,     \* the mapper objects: heap[id] is the object with identity id
    held,     \* ids of the mapper objects the caller constructed and holds
    dss,      \* the Dataset objects: dss[k] is dataset k
    hollow,   \* the HollowSamples objects: hollow[k] is object k
    event     \* the last operation: its arguments, and what it returned or raised

vars == <<heap, held, dss, hollow, event>>

-----------------------------------------------------------------------------
(* Bounds of the model *)

NCols == 3        \* columns of the first dataset
NRows == 2        \* rows of the first dataset
MaxDs == 3        \* dataset objects the caller makes by slicing
MaxCalls == 4     \* mappers the caller records, on all datasets together

-----------------------------------------------------------------------------
(* Sequences *)

Range(s) == {s[k] : k \in 1..Len(s)}

Last(s) == s[Len(s)]

Front(s) == SubSeq(s, 1, Len(s) - 1)

\* a[b]: the elements of a at the (0-based) positions b, in b's order
Take(a, b) == [j \in 1..Len(b) |-> a[b[j] + 1]]

-----------------------------------------------------------------------------
(* Selectors: what may stand in an index position.  val is always a        *)
(* sequence of integers: <<i>> for the integer i, the indices of a list,   *)
(* the 0/1 entries of a boolean mask, <<start, stop>> for a slice.         *)

SelInt(i) == [kind |-> "int", val |-> <<i>>]

SelList(l) == [kind |-> "list", val |-> l]

SelMask(b) == [kind |-> "mask", val |-> b]

SelSlice(a, b) == [kind |-> "slice", val |-> <<a, b>>]

NoSel == [kind |-> "none", val |-> <<>>]

\* the positions a boolean mask selects, ascending
MaskIdx(bits) ==
    LET F[k \in 0..Len(bits)] ==
            IF k = 0 THEN <<>>
            ELSE IF bits[k] = 1 THEN Append(F[k - 1], k - 1) ELSE F[k - 1]
    IN F[Len(bits)]

\* the positions, in order, that indexing an axis of length n with sel keeps;
\* an integer is first made a one-element list and so keeps the axis
SelIdx(sel, n) ==
    CASE sel.kind = "int" ->
            <<IF sel.val[1] < 0 THEN n + sel.val[1] ELSE sel.val[1]>>
      [] sel.kind = "list" -> sel.val
      [] sel.kind = "mask" -> MaskIdx(sel.val)
      [] sel.kind = "slice" ->
            [j \in 1..(sel.val[2] - sel.val[1]) |-> sel.val[1] + j - 1]
      [] OTHER -> <<>>

-----------------------------------------------------------------------------
(* Mapper objects *)

NoMapper == 0

\* space=None
NoSpace == "None"

\* StaticFeatureSelection(slicearg, dshape=dshape): dshape is the shape of
\* one sample of its input, slicearg selects on the first axis of it
StaticFeatureSelection(sel, dshape) ==
    [kind |-> "sfs", slicearg |-> sel, dshape |-> dshape, nodes |-> <<>>,
     space |-> NoSpace]

\* a trained mapper that is no feature selection and keeps the shape
OtherMapper(dshape) ==
    [kind |-> "other", slicearg |-> NoSel, dshape |-> dshape, nodes |-> <<>>,
     space |-> NoSpace]

\* ChainMapper(nodes)
ChainMapper(ns) ==
    [kind |-> "chain", slicearg |-> NoSel, dshape |-> <<>>, nodes |-> ns,
     space |-> NoSpace]

\* the columns of its input a static feature selection keeps
SfsIdx(m) == SelIdx(m.slicearg, m.dshape[1])

\* samples.shape[1]: the columns of a dataset
NCol(d) == d.fshape[1]

\* isinstance(pmapper, ChainMapper)
IsChain(h, ref) == ref # NoMapper /\ h[ref].kind = "chain"

\* the mappers a dataset's 'mapper' attribute stands for, first applied first
ChainNodes(h, ref) ==
    IF ref = NoMapper THEN <<>>
    ELSE IF h[ref].kind = "chain" THEN h[ref].nodes
    ELSE <<ref>>

\* reverse mapping of one mapper: the input column behind output column j
\* (-1: the mapper has no such output column)
Reverse1(m, j) ==
    IF m.kind # "sfs" THEN j
    ELSE IF j + 1 \in DOMAIN SfsIdx(m) THEN SfsIdx(m)[j + 1] ELSE -1

\* reverse mapping through the chain: the original-space column behind
\* column j of the dataset that carries the chain
RECURSIVE ReverseNodes(_, _, _)
ReverseNodes(h, ns, j) ==
    IF ns = <<>> THEN j
    ELSE ReverseNodes(h, Front(ns), Reverse1(h[Last(ns)], j))

ReverseMap(h, ref, ncols) ==
    [j \in 1..ncols |-> ReverseNodes(h, ChainNodes(h, ref), j - 1)]

-----------------------------------------------------------------------------
(* The mapper interface the dataset uses (mvpa2.mappers, mvpa2.featsel) *)

\* lastmapper += mapper on a StaticFeatureSelection: the merged selection is
\* the new one applied to what the old one kept.  A mapper that is no static
\* feature selection, or one whose selection cannot be merged (compat false),
\* is refused with TypeError; a selection that indexes past what the old one
\* kept fails with IndexError.
IAdd(last, other, compat) ==
    IF other.kind # "sfs" \/ ~compat
    THEN [raised |-> "TypeError", self |-> last]
    ELSE IF \E j \in 1..Len(SfsIdx(other)) :
               SfsIdx(other)[j] >= Len(SfsIdx(last))
    THEN [raised |-> "IndexError", self |-> last]
    ELSE [raised |-> "",
          self |-> [last EXCEPT
                      !.slicearg = SelList(Take(SfsIdx(last), SfsIdx(other)))]]

\* copy.copy of the value of the 'mapper' attribute: a new object, and for a
\* chain new node objects too; ref is the copy's identity
CopyMapper(h, ref) ==
    IF ref = NoMapper THEN [heap |-> h, ref |-> NoMapper]
    ELSE IF h[ref].kind = "chain"
    THEN LET ns == h[ref].nodes
             h1 == h \o [k \in 1..Len(ns) |-> h[ns[k]]]
             copies == [k \in 1..Len(ns) |-> Len(h) + k]
         IN [heap |-> Append(h1, ChainMapper(copies)), ref |-> Len(h1) + 1]
    ELSE [heap |-> Append(h, h[ref]), ref |-> Len(h) + 1]

\* FlattenMapper(shape=shape, space=space)
FlattenMapper(shape, space) ==
    [kind |-> "flatten", slicearg |-> NoSel, dshape |-> shape, nodes |-> <<>>,
     space |-> space]

\* the number of elements of an array of this shape
RECURSIVE Prod(_)
Prod(shape) == IF shape = <<>> THEN 1 ELSE Head(shape) * Prod(Tail(shape))

\* stands for the shape of a sample a mapper does not accept
NoShape == <<-1>>

\* the shape of one sample after the mapper record m mapped a sample of shape
\* fshape: a static feature selection and a flatten mapper accept only the
\* shape they were made for
NodeShape(m, fshape) ==
    CASE fshape = NoShape -> NoShape
      [] m.kind = "sfs" ->
            IF m.dshape # fshape THEN NoShape
            ELSE <<Len(SfsIdx(m))>> \o Tail(fshape)
      [] m.kind = "flatten" ->
            IF m.dshape # fshape THEN NoShape ELSE <<Prod(fshape)>>
      [] OTHER -> fshape

\* the same for object m of the heap; a chain maps through its nodes in order
ForwardShape(h, m, fshape) ==
    IF h[m].kind = "chain"
    THEN LET ns == h[m].nodes
             F[k \in 0..Len(ns)] ==
                 IF k = 0 THEN fshape ELSE NodeShape(h[ns[k]], F[k - 1])
         IN F[Len(ns)]
    ELSE NodeShape(h[m], fshape)

\* mapper.forward(ds): a new dataset with the mapped samples that inherits
\* the attributes of ds
Forward(h, d, m) ==
    LET out == ForwardShape(h, m, d.fshape)
    IN IF out = NoShape
       THEN [raised |-> "ValueError", heap |-> h, ds |-> d]
       ELSE LET c == CopyMapper(h, d.mapper)
            IN [raised |-> "", heap |-> c.heap,
                ds |-> [d EXCEPT !.fshape = out, !.mapper = c.ref]]

\* AttrDataset.__getitem__(args): rows and columns are selected at once and
\* the dataset attributes are copied
AttrGetitem(h, d, args) ==
    LET c == CopyMapper(h, d.mapper)
    IN [heap |-> c.heap,
        ds |-> [d EXCEPT
                  !.nrows = Len(SelIdx(args[1], d.nrows)),
                  !.fshape = IF Len(args) > 1
                             THEN <<Len(SelIdx(args[2], NCol(d)))>> \o Tail(@)
                             ELSE @,
                  !.mapper = c.ref]]

-----------------------------------------------------------------------------
(* Dataset: the mapper chain *)

\* _append_mapper with the first mapper wrapped in a chain of its own
AppendMapperWrapsFirst(h, d, m, compat) ==
    IF d.mapper = NoMapper
    THEN [heap |-> Append(h, ChainMapper(<<m>>)),
          ds |-> [d EXCEPT !.mapper = Len(h) + 1], raised |-> ""]
    ELSE LET chain == d.mapper
         IN [heap |-> [h EXCEPT ![chain].nodes = Append(@, m)],
             ds |-> d, raised |-> ""]

\* _append_mapper without the except clause: the TypeError of a refused
\* merge leaves the call
AppendMapperNoExcept(h, d, m, compat) ==
    IF d.mapper = NoMapper
    THEN [heap |-> h, ds |-> [d EXCEPT !.mapper = m], raised |-> ""]
    ELSE LET pmapper == d.mapper
             promote == ~IsChain(h, pmapper)
             h1 == IF promote THEN Append(h, ChainMapper(<<pmapper>>)) ELSE h
             d1 == IF promote THEN [d EXCEPT !.mapper = Len(h1)] ELSE d
             chain == d1.mapper
             lastmapper == Last(h1[chain].nodes)
             appended == [h1 EXCEPT ![chain].nodes = Append(@, m)]
         IN IF h1[lastmapper].kind = "sfs"
            THEN LET r == IAdd(h1[lastmapper], h1[m], compat)
                 IN IF r.raised = ""
                    THEN [heap |-> [h1 EXCEPT ![lastmapper] = r.self],
                          ds |-> d1, raised |-> ""]
                    ELSE [heap |-> h1, ds |-> d1, raised |-> r.raised]
            ELSE [heap |-> appended, ds |-> d1, raised |-> ""]

\* Dataset._append_mapper(mapper) on dataset d; the result holds the heap
\* and the dataset as the call leaves them and the exception that left it
_append_mapper(h, d, m, compat) ==
    IF d.mapper = NoMapper
    THEN [heap |-> h, ds |-> [d EXCEPT !.mapper = m], raised |-> ""]
    ELSE LET pmapper == d.mapper
             promote == ~IsChain(h, pmapper)
             h1 == IF promote THEN Append(h, ChainMapper(<<pmapper>>)) ELSE h
             d1 == IF promote THEN [d EXCEPT !.mapper = Len(h1)] ELSE d
             chain == d1.mapper
             lastmapper == Last(h1[chain].nodes)
             appended == [h1 EXCEPT ![chain].nodes = Append(@, m)]
         IN IF h1[lastmapper].kind = "sfs"
            THEN LET r == IAdd(h1[lastmapper], h1[m], compat)
                 IN CASE r.raised = "" ->
                            [heap |-> [h1 EXCEPT ![lastmapper] = r.self],
                             ds |-> d1, raised |-> ""]
                      [] r.raised = "TypeError" ->
                            [heap |-> appended, ds |-> d1, raised |-> ""]
                      [] OTHER ->
                            [heap |-> h1, ds |-> d1, raised |-> r.raised]
            ELSE [heap |-> appended, ds |-> d1, raised |-> ""]

\* what is known of a call of _append_mapper: the mapper, and the 'mapper'
\* attribute and its last node as the call found them
Call(h, d, m, compat, raised) ==
    [m |-> m, mrec |-> h[m], compat |-> compat, raised |-> raised,
     preref |-> d.mapper, prechain |-> IsChain(h, d.mapper),
     prenodes |-> ChainNodes(h, d.mapper),
     prelast |-> IF d.mapper = NoMapper THEN OtherMapper(<<>>)
                 ELSE h[Last(ChainNodes(h, d.mapper))]]

\* Dataset.get_mapped(mapper)
get_mapped(h, d, m, compat) ==
    LET f == Forward(h, d, m)
        a == _append_mapper(f.heap, f.ds, m, compat)
    IN IF f.raised # ""
       THEN [raised |-> f.raised, heap |-> h, ds |-> d, calls |-> <<>>]
       ELSE [raised |-> a.raised, heap |-> a.heap, ds |-> a.ds,
             calls |-> <<Call(f.heap, f.ds, m, compat, a.raised)>>]

\* __getitem__ that leaves the mapper of the slice as it was copied
GetitemNoRecord(h, d, args, compat) ==
    LET g == AttrGetitem(h, d, args)
    IN [raised |-> "", heap |-> g.heap, ds |-> g.ds, calls |-> <<>>]

\* __getitem__ with the new mapper bound to the shape of the slice
GetitemPostShape(h, d, args, compat) ==
    LET g == AttrGetitem(h, d, args)
        subsetmapper == StaticFeatureSelection(args[2], g.ds.fshape)
        h1 == Append(g.heap, subsetmapper)
        a == _append_mapper(h1, g.ds, Len(h1), compat)
    IN IF Len(args) > 1 /\ g.ds.mapper # NoMapper
       THEN [raised |-> a.raised, heap |-> a.heap, ds |-> a.ds,
             calls |-> <<Call(h1, g.ds, Len(h1), compat, a.raised)>>]
       ELSE [raised |-> "", heap |-> g.heap, ds |-> g.ds, calls |-> <<>>]

\* Dataset.__getitem__(args) for one or two selectors of one dimension
__getitem__(h, d, args, compat) ==
    LET g == AttrGetitem(h, d, args)
        subsetmapper == StaticFeatureSelection(args[2], d.fshape)
        h1 == Append(g.heap, subsetmapper)
        a == _append_mapper(h1, g.ds, Len(h1), compat)
    IN IF Len(args) > 1 /\ g.ds.mapper # NoMapper
       THEN [raised |-> a.raised, heap |-> a.heap, ds |-> a.ds,
             calls |-> <<Call(h1, g.ds, Len(h1), compat, a.raised)>>]
       ELSE [raised |-> "", heap |-> g.heap, ds |-> g.ds, calls |-> <<>>]

-----------------------------------------------------------------------------
(* Dataset: attributes in the collections sa, fa and a.  The value of the  *)
(* dataset attribute 'mapper' is kept apart, in the field mapper.          *)

__debug__ == TRUE

AttrNames == {"x", "y"}

\* an attribute value: len is its length, v what tells two values apart
Absent == [len |-> -1, v |-> <<>>]

EmptyCollection == [n \in AttrNames |-> Absent]

\* attr in col
Has(col, attr) == attr \in DOMAIN col /\ col[attr] # Absent

\* the length the values of a collection must have (-1: any)
ColLength(d, id) ==
    CASE id = "sa" -> d.nrows
      [] id = "fa" -> NCol(d)
      [] OTHER -> -1

\* col[name] = value: the collection checks the length of the value
SetItem(d, id, name, value) ==
    IF ColLength(d, id) # -1 /\ value.len # ColLength(d, id)
    THEN [raised |-> "ValueError", ds |-> d]
    ELSE [raised |-> "",
          ds |-> [d EXCEPT ![id] = [n \in DOMAIN @ \cup {name} |->
                                      IF n = name THEN value ELSE @[n]]]]

\* col[name]
GetItem(d, id, name) ==
    IF Has(d[id], name)
    THEN [raised |-> "", value |-> d[id][name]]
    ELSE [raised |-> "KeyError", value |-> Absent]

\* name.split('.'): a name is the sequence of its pieces, "." among them
RECURSIVE Split(_)
Split(name) ==
    IF name = <<>> THEN <<<<>>>>
    ELSE LET rest == Split(Tail(name))
         IN IF Head(name) = "."
            THEN <<<<>>>> \o rest
            ELSE <<<<Head(name)>> \o rest[1]>> \o Tail(rest)

\* '.' in name
Dotted(name) == \E k \in 1..Len(name) : name[k] = "."

\* find_collection with the variable attributes searched first
FindCollectionFaFirst(d, attr) ==
    IF Has(d.fa, attr)
    THEN [raised |-> "", col |-> "fa",
          warned |-> __debug__ /\ (Has(d.sa, attr) \/ Has(d.a, attr))]
    ELSE IF Has(d.sa, attr)
    THEN [raised |-> "", col |-> "sa", warned |-> __debug__ /\ Has(d.a, attr)]
    ELSE IF Has(d.a, attr)
    THEN [raised |-> "", col |-> "a", warned |-> FALSE]
    ELSE [raised |-> "LookupError", col |-> "", warned |-> FALSE]

\* Dataset.find_collection(attr)
find_collection(d, attr) ==
    IF Has(d.sa, attr)
    THEN [raised |-> "", col |-> "sa",
          warned |-> __debug__ /\ (Has(d.fa, attr) \/ Has(d.a, attr))]
    ELSE IF Has(d.fa, attr)
    THEN [raised |-> "", col |-> "fa", warned |-> __debug__ /\ Has(d.a, attr)]
    ELSE IF Has(d.a, attr)
    THEN [raised |-> "", col |-> "a", warned |-> FALSE]
    ELSE [raised |-> "LookupError", col |-> "", warned |-> FALSE]

\* _collection_id2obj with 'fa' taken for the observation attributes
CollectionId2ObjSwapped(col) ==
    CASE col = <<"sa">> -> [raised |-> "", col |-> "sa"]
      [] col = <<"fa">> -> [raised |-> "", col |-> "sa"]
      [] col = <<"a">> -> [raised |-> "", col |-> "a"]
      [] OTHER -> [raised |-> "LookupError", col |-> ""]

\* Dataset._collection_id2obj(col)
_collection_id2obj(col) ==
    CASE col = <<"sa">> -> [raised |-> "", col |-> "sa"]
      [] col = <<"fa">> -> [raised |-> "", col |-> "fa"]
      [] col = <<"a">> -> [raised |-> "", col |-> "a"]
      [] OTHER -> [raised |-> "LookupError", col |-> ""]

\* the first lines of set_attr and of get_attr: the collection and the
\* attribute a name stands for.  A piece of a name is one token here, or
\* none.
Resolve(d, name) ==
    IF Dotted(name)
    THEN LET r == _collection_id2obj(Split(name)[1])
         IN [raised |-> r.raised, col |-> r.col,
             attr |-> IF Split(name)[2] = <<>> THEN ""
                      ELSE Split(name)[2][1]]
    ELSE LET r == find_collection(d, name[1])
         IN [raised |-> r.raised, col |-> r.col, attr |-> name[1]]

\* Dataset.set_attr(name, value)
set_attr(d, name, value) ==
    LET c == Resolve(d, name)
    IN IF c.raised # "" THEN [raised |-> c.raised, ds |-> d]
       ELSE SetItem(d, c.col, c.attr, value)

\* Dataset.get_attr(name)
get_attr(d, name) ==
    LET c == Resolve(d, name)
    IN IF c.raised # ""
       THEN [raised |-> c.raised, value |-> Absent, col |-> ""]
       ELSE [raised |-> GetItem(d, c.col, c.attr).raised,
             value |-> GetItem(d, c.col, c.attr).value,
             col |-> IF GetItem(d, c.col, c.attr).raised = ""
                     THEN c.col ELSE ""]

-----------------------------------------------------------------------------
(* The caller: datasets, the mappers it constructs, and its calls *)

\* what slicing alone made of a dataset: base is the reverse mapping of the
\* dataset the first slice was taken of, sels the column selections since
NotSliced == [base |-> <<>>, sels |-> <<>>]

\* a dataset as its constructor leaves it.  hist lists the mappers given to
\* _append_mapper on this object; tracked says that the object had no
\* 'mapper' attribute when it was made
NewDataset(nrows, fshape) ==
    [nrows |-> nrows, fshape |-> fshape, mapper |-> NoMapper,
     sa |-> EmptyCollection, fa |-> EmptyCollection, a |-> EmptyCollection,
     hist |-> <<>>, tracked |-> TRUE, prov |-> NotSliced]

\* the mask 1, 0, 1, ... over n columns
AltMask(n) == SelMask([k \in 1..n |-> k % 2])

\* the columns n-1, ..., 0
Reversed(n) == SelList([k \in 1..n |-> n - k])

\* the trained mappers the caller has constructed; it holds each of them and
\* may hand the same one to several datasets
CallerMappers ==
    <<OtherMapper(<<NCols>>),
      StaticFeatureSelection(SelList(<<1, 0>>), <<NCols>>),
      StaticFeatureSelection(AltMask(NCols), <<NCols>>)>>

\* the selectors the caller slices an axis of length n with
Selectors(n) ==
    {SelInt(i) : i \in {j \in {0, -1} : n > 0}}
    \cup {SelList(<<>>), AltMask(n), SelMask([k \in 1..n |-> 1]),
          SelSlice(0, n)}
    \cup {Reversed(n) : j \in {n} \ {0}}
    \cup {SelList(<<0, 0>>) : j \in {n} \ {0}}
    \cup {SelSlice(1, n) : j \in {n} \ {0}}

\* the indices the caller slices dataset d with: rows alone, or rows and
\* columns
IndexArgs(d) ==
    {<<SelSlice(0, d.nrows)>>}
    \cup {<<SelInt(0)>> : j \in {d.nrows} \ {0}}
    \cup {<<SelSlice(0, d.nrows), cs>> : cs \in Selectors(NCol(d))}
    \cup {<<SelInt(0), Reversed(NCol(d))>> : j \in {d.nrows} \ {0}}

\* whether the mapper's composition accepts the merge is the mapper's own
\* business; it is only asked when both are static feature selections
CompatChoices(h, d, mrec) ==
    IF d.mapper # NoMapper /\ mrec.kind = "sfs"
          /\ h[Last(ChainNodes(h, d.mapper))].kind = "sfs"
    THEN BOOLEAN ELSE {TRUE}

\* the mappers recorded so far on the datasets ds
RECURSIVE Recorded(_)
Recorded(ds) ==
    IF ds = <<>> THEN 0 ELSE Len(Last(ds).hist) + Recorded(Front(ds))

NoEvent ==
    [op |-> "init", src |-> 0, res |-> 0, args |-> <<>>, raised |-> "",
     calls |-> <<>>]

\* one dataset without a mapper, and the caller's mappers
Init ==
    /\ heap = CallerMappers
    /\ held = DOMAIN CallerMappers
    /\ hollow = <<>>
    /\ dss = <<NewDataset(NRows, <<NCols>>)>>
    /\ event = NoEvent

\* dss[k]._append_mapper(m)
DoAppend(k, m, compat) ==
    LET r == _append_mapper(heap, dss[k], m, compat)
    IN /\ Recorded(dss) < MaxCalls
       /\ heap' = r.heap
       /\ dss' = [dss EXCEPT ![k] = [r.ds EXCEPT !.hist = Append(@, m),
                                                !.prov = NotSliced]]
       /\ event' = [op |-> "append", src |-> k, res |-> k, args |-> <<>>,
                    raised |-> r.raised,
                    calls |-> <<Call(heap, dss[k], m, compat, r.raised)>>]
       /\ UNCHANGED <<held, hollow>>

\* dss[k].get_mapped(m); the dataset it returns becomes the last of dss
DoGetMapped(k, m, compat) ==
    LET r == get_mapped(heap, dss[k], m, compat)
    IN /\ Recorded(dss) < MaxCalls
       /\ IF r.raised = ""
          THEN /\ heap' = r.heap
               /\ dss' = Append(dss,
                             [r.ds EXCEPT
                                !.tracked = (dss[k].mapper = NoMapper),
                                !.hist = <<m>>,
                                !.prov = NotSliced])
          ELSE UNCHANGED <<heap, dss>>
       /\ event' = [op |-> "get_mapped", src |-> k,
                    res |-> IF r.raised = "" THEN Len(dss) + 1 ELSE 0,
                    args |-> <<>>, raised |-> r.raised, calls |-> r.calls]
       /\ UNCHANGED <<held, hollow>>

\* dss[k][args]; the dataset it returns becomes the last of dss
DoGetitem(k, args, compat) ==
    LET d == dss[k]
        r == __getitem__(heap, d, args, compat)
        base == IF d.prov.sels = <<>>
                THEN ReverseMap(heap, d.mapper, NCol(d)) ELSE d.prov.base
    IN /\ Len(dss) < MaxDs
       /\ IF r.raised = ""
          THEN /\ heap' = r.heap
               /\ dss' = Append(dss,
                             [r.ds EXCEPT
                                !.tracked = (d.mapper = NoMapper),
                                !.hist = [c \in 1..Len(r.calls) |-> r.calls[c].m],
                                !.prov = IF Len(args) > 1
                                         THEN [base |-> base,
                                               sels |-> Append(d.prov.sels,
                                                   SelIdx(args[2], NCol(d)))]
                                         ELSE d.prov])
          ELSE UNCHANGED <<heap, dss>>
       /\ event' = [op |-> "getitem", src |-> k,
                    res |-> IF r.raised = "" THEN Len(dss) + 1 ELSE 0,
                    args |-> args, raised |-> r.raised, calls |-> r.calls]
       /\ UNCHANGED <<held, hollow>>

\* the caller records mappers and maps datasets
Next ==
    \/ \E k \in 1..Len(dss), m \in held :
          \E compat \in CompatChoices(heap, dss[k], heap[m]) :
             DoAppend(k, m, compat)
    \/ \E k \in 1..Len(dss), m \in held :
          \E compat \in CompatChoices(heap, dss[k], heap[m]) :
             DoGetMapped(k, m, compat)

Spec == Init /\ [][Next]_vars

\* the mappers a dataset about to be sliced may carry: none, one mapper, or
\* a chain
BaseHeap ==
    <<OtherMapper(<<NCols>>),
      StaticFeatureSelection(Reversed(NCols), <<NCols>>),
      OtherMapper(<<NCols>>),
      StaticFeatureSelection(SelSlice(1, NCols + 1), <<NCols + 1>>),
      ChainMapper(<<1, 2>>), ChainMapper(<<4, 3>>)>>

InitSlice ==
    /\ heap = BaseHeap
    /\ held = {}
    /\ hollow = <<>>
    /\ \E ref \in {NoMapper, 1, 2, 5, 6} :
          dss = <<[NewDataset(NRows, <<NCols>>) EXCEPT
                     !.mapper = ref, !.tracked = (ref = NoMapper)]>>
    /\ event = NoEvent

\* the caller slices datasets
NextSlice ==
    \E k \in 1..Len(dss) :
       \E args \in IndexArgs(dss[k]) :
          \E compat \in CompatChoices(heap, dss[k],
                            StaticFeatureSelection(args[1], <<>>)) :
             DoGetitem(k, args, IF Len(args) > 1 THEN compat ELSE TRUE)

SpecSlice == InitSlice /\ [][NextSlice]_vars

-----------------------------------------------------------------------------
(* The mapper chain: what is checked *)

\* the mapper objects of a dataset's chain, by value
NodeRecs(h, ref) ==
    [j \in 1..Len(ChainNodes(h, ref)) |-> h[ChainNodes(h, ref)[j]]]

\* C2: on a dataset object that had no 'mapper' attribute, after one call of
\* _append_mapper the attribute is the mapper given, itself and not a chain;
\* after two or more calls it is a ChainMapper that is not empty and whose
\* first node is the mapper of the first call.  Holding in every state, it
\* never goes back to a bare mapper or to no attribute.
C2_BareThenChain ==
    \A k \in 1..Len(dss) :
       LET d == dss[k]
       IN d.tracked =>
            /\ Len(d.hist) = 0 => d.mapper = NoMapper
            /\ Len(d.hist) = 1 =>
                  d.mapper = d.hist[1] /\ ~IsChain(heap, d.mapper)
            /\ Len(d.hist) >= 2 =>
                  /\ IsChain(heap, d.mapper)
                  /\ heap[d.mapper].nodes # <<>>
                  /\ heap[d.mapper].nodes[1] = d.hist[1]

\* three mappers were recorded on one dataset and its chain has two nodes
C2_Witness ==
    \E k \in 1..Len(dss) :
       /\ dss[k].tracked /\ Len(dss[k].hist) = 3
       /\ Len(ChainNodes(heap, dss[k].mapper)) = 2

\* the dataset the last call of _append_mapper was made on, when the caller
\* can still see it
Target == IF event.op = "append" THEN event.src ELSE event.res

\* C3: a call of _append_mapper on a dataset that has a mapper.  When the
\* last node is a static feature selection and += merges, the chain keeps
\* its nodes and the last one selects what the two select in sequence; when
\* += is refused with TypeError nothing is raised and the mapper is the new
\* last node; when the last node is no static feature selection the mapper
\* is the new last node.  The earlier nodes stay where they were.
C3_MergeOrAppend ==
    (event.calls # <<>> /\ Target # 0 /\ event.calls[1].preref # NoMapper) =>
       LET c == event.calls[1]
           post == ChainNodes(heap, dss[Target].mapper)
           r == IAdd(c.prelast, c.mrec, c.compat)
       IN /\ SubSeq(post, 1, Len(c.prenodes)) = c.prenodes
          /\ (c.prelast.kind = "sfs" /\ r.raised = "") =>
                /\ c.raised = ""
                /\ post = c.prenodes
                /\ SfsIdx(heap[Last(post)])
                      = Take(SfsIdx(c.prelast), SfsIdx(c.mrec))
          /\ (c.prelast.kind = "sfs" /\ r.raised = "TypeError") =>
                c.raised = "" /\ post = Append(c.prenodes, c.m)
          /\ c.prelast.kind # "sfs" =>
                c.raised = "" /\ post = Append(c.prenodes, c.m)

\* a static feature selection refused the merge of another and the other
\* became the last node
C3_Witness ==
    /\ event.calls # <<>> /\ Target # 0
    /\ event.calls[1].prelast.kind = "sfs"
    /\ event.calls[1].mrec.kind = "sfs"
    /\ event.calls[1].compat = FALSE
    /\ Last(ChainNodes(heap, dss[Target].mapper)) = event.calls[1].m
    /\ Len(ChainNodes(heap, dss[Target].mapper)) >= 2

\* C4: for ds2 = ds[:, s1][:, s2] of a dataset ds that carries a mapper, the
\* reverse mapping of the chain of ds2 puts column j where the reverse
\* mapping of ds puts the column that s1, then s2, select as the j-th.
C4_SliceTwiceReverse ==
    \A k \in 1..Len(dss) :
       LET d == dss[k]
       IN (d.mapper # NoMapper /\ Len(d.prov.sels) = 2) =>
             ReverseMap(heap, d.mapper, NCol(d))
               = Take(d.prov.base, Take(d.prov.sels[1], d.prov.sels[2]))

\* a dataset sliced twice on its columns, the second time reordering two or
\* more of them, whose chain does not map every column to itself
C4_Witness ==
    \E k \in 1..Len(dss) :
       /\ dss[k].mapper # NoMapper /\ Len(dss[k].prov.sels) = 2
       /\ NCol(dss[k]) >= 2
       /\ dss[k].prov.sels[2][1] > dss[k].prov.sels[2][2]
       /\ dss[k].prov.sels[1] # dss[k].prov.sels[2]
       /\ ReverseMap(heap, dss[k].mapper, NCol(dss[k]))
             # [j \in 1..NCol(dss[k]) |-> j - 1]

-----------------------------------------------------------------------------
(* The caller reads and writes attributes of one dataset *)

\* the names the caller gives: bare, with a collection, with an unknown
\* collection, and with a third piece
Names ==
    {<<n>> : n \in AttrNames}
    \cup {<<c, ".", "x">> : c \in {"sa", "fa", "a", "zz"}}
    \cup {<<"a", ".", "y">>, <<"fa", ".", "x", ".", "y">>}

\* the values the caller gives: of the length of the rows, of the columns
Values == {[len |-> l, v |-> <<x>>] : l \in {NRows, NCols}, x \in 1..2}

AttrEvent(op, name, value, pre, r) ==
    [op |-> op, name |-> name, value |-> value, pre |-> pre, ret |-> r]

InitAttr ==
    /\ heap = <<>>
    /\ held = {}
    /\ hollow = <<>>
    /\ dss = <<NewDataset(NRows, <<NCols>>)>>
    /\ event = AttrEvent("init", <<>>, Absent, NewDataset(NRows, <<NCols>>),
                         [raised |-> ""])

\* dss[1].set_attr(name, value)
DoSetAttr(name, value) ==
    LET r == set_attr(dss[1], name, value)
    IN /\ dss' = [dss EXCEPT ![1] = r.ds]
       /\ event' = AttrEvent("set_attr", name, value, dss[1],
                             [raised |-> r.raised])
       /\ UNCHANGED <<heap, held, hollow>>

\* dss[1].get_attr(name)
DoGetAttr(name) ==
    /\ event' = AttrEvent("get_attr", name, Absent, dss[1],
                          get_attr(dss[1], name))
    /\ UNCHANGED <<heap, held, dss, hollow>>

\* dss[1].find_collection(attr)
DoFindCollection(attr) ==
    /\ event' = AttrEvent("find_collection", <<attr>>, Absent, dss[1],
                          find_collection(dss[1], attr))
    /\ UNCHANGED <<heap, held, dss, hollow>>

NextAttr ==
    \/ \E name \in Names, value \in Values : DoSetAttr(name, value)
    \/ \E name \in Names : DoGetAttr(name)
    \/ \E attr \in AttrNames : DoFindCollection(attr)

SpecAttr == InitAttr /\ [][NextAttr]_vars

\* C1: find_collection of a bare name returns sa when sa holds it, else fa
\* when fa holds it, else a when a holds it, and raises LookupError when
\* none does; when two or more hold it a warning is emitted too.
C1_FindCollectionPrecedence ==
    event.op = "find_collection" =>
       LET d == dss[1]
           n == event.name[1]
           r == event.ret
           held3 == {c \in {"sa", "fa", "a"} : Has(d[c], n)}
       IN /\ "sa" \in held3 => r.raised = "" /\ r.col = "sa"
          /\ ("sa" \notin held3 /\ "fa" \in held3) =>
                r.raised = "" /\ r.col = "fa"
          /\ held3 = {"a"} => r.raised = "" /\ r.col = "a"
          /\ held3 = {} => r.raised = "LookupError"
          /\ Cardinality(held3) >= 2 => r.warned

\* a name held by fa and a and not by sa was looked up
C1_Witness ==
    /\ event.op = "find_collection"
    /\ ~Has(dss[1].sa, event.name[1])
    /\ Has(dss[1].fa, event.name[1]) /\ Has(dss[1].a, event.name[1])
    /\ event.ret.col = "fa" /\ event.ret.warned

\* the collection a name with a collection names
Named(name) == Split(name)[1][1]

\* the attribute a name stands for
AttrOf(name) == IF Dotted(name) THEN Split(name)[2][1] ELSE name[1]

\* no attribute but attr of collection col differs between d and e
OnlyChanged(d, e, col, attr) ==
    /\ \A c \in {"sa", "fa", "a"} : \A n \in AttrNames :
          (c # col \/ n # attr) => e[c][n] = d[c][n]
    /\ e.mapper = d.mapper /\ e.nrows = d.nrows /\ e.fshape = d.fshape

\* the collection set_attr is to write to in dataset d ("": none found)
TargetCol(d, name) ==
    IF Dotted(name) THEN Named(name) ELSE find_collection(d, name[1]).col

\* the names the claim is about, and the values the target accepts
InScope(d, name, value) ==
    /\ Dotted(name) => Named(name) \in {"sa", "fa", "a"}
    /\ ColLength(d, TargetCol(d, name)) \in {-1, value.len}

\* what a set_attr that wrote leaves: get_attr returns the value and the
\* collection, and nothing else has changed
Written ==
    LET g == get_attr(dss[1], event.name)
    IN /\ event.ret.raised = ""
       /\ g.raised = "" /\ g.value = event.value
       /\ g.col = TargetCol(event.pre, event.name)
       /\ OnlyChanged(event.pre, dss[1], g.col, AttrOf(event.name))

\* C10 as claimed: set_attr(name, value) writes the value into the resolved
\* or the named collection, creating the attribute if it is absent, and
\* get_attr(name) then returns the value and that collection; no other
\* collection is changed.
C10_SetThenGet ==
    (event.op = "set_attr" /\ InScope(event.pre, event.name, event.value))
       => Written

\* C10 as amended: the same for a name with a collection, and for a bare
\* name that a collection holds; set_attr of a bare name that no collection
\* holds raises LookupError and writes nothing.
C10_SetThenGetResolved ==
    event.op = "set_attr" =>
       /\ (InScope(event.pre, event.name, event.value)
             /\ TargetCol(event.pre, event.name) # "") => Written
       /\ (~Dotted(event.name) /\ TargetCol(event.pre, event.name) = "") =>
             event.ret.raised = "LookupError" /\ dss[1] = event.pre

\* set_attr with a collection in the name made an attribute that fa did
\* not hold, and a bare name now finds it
C10_Witness ==
    /\ event.op = "set_attr" /\ event.ret.raised = ""
    /\ event.name = <<"fa", ".", "x">>
    /\ ~Has(event.pre.fa, "x") /\ ~Has(event.pre.sa, "x")
    /\ get_attr(dss[1], <<"x">>).col = "fa"
    /\ get_attr(dss[1], <<"x">>).value = event.value


-----------------------------------------------------------------------------
(* HollowSamples: a samples container that keeps only the ids of its rows  *)
(* and columns.  An argument that may be None is a record: None, or        *)
(* Some(v) for the value v.                                                *)

None == [some |-> FALSE]

Some(v) == [some |-> TRUE, val |-> v]

\* np.arange(n)
np_arange(n) == [j \in 1..n |-> j - 1]

NoHollow == [sid |-> <<>>, fid |-> <<>>]

\* HollowSamples(shape, sid, fid)
HollowSamples__init__(shape, sid, fid) ==
    IF ~shape.some /\ ~sid.some /\ ~fid.some
    THEN [raised |-> "ValueError", self |-> NoHollow]
    ELSE IF shape.some /\ Len(shape.val) # 2
    THEN [raised |-> "ValueError", self |-> NoHollow]
    ELSE IF ~shape.some /\ (~sid.some \/ ~fid.some)
    THEN \* shape[0] or shape[1] of None
         [raised |-> "TypeError", self |-> NoHollow]
    ELSE LET self == [sid |-> IF sid.some THEN sid.val
                              ELSE np_arange(shape.val[1]),
                      fid |-> IF fid.some THEN fid.val
                              ELSE np_arange(shape.val[2])]
         IN IF shape.some /\ Len(self.sid) # shape.val[1]
                          /\ Len(self.fid) # shape.val[2]
            THEN [raised |-> "ValueError", self |-> NoHollow]
            ELSE [raised |-> "", self |-> self]

\* self.shape
HollowSamples_shape(self) == <<Len(self.sid), Len(self.fid)>>

\* self[args]: args is the tuple of index expressions
HollowSamples__getitem__(self, args) ==
    IF Len(args) > 2
    THEN [raised |-> "ValueError", self |-> NoHollow]
    ELSE LET args1 == IF Len(args) = 1
                      THEN <<args[1], SelSlice(0, Len(self.fid))>>
                      ELSE args
         IN IF Len(args1) = 0
            THEN \* args[0] of the empty list
                 [raised |-> "IndexError", self |-> NoHollow]
            ELSE LET sid == Take(self.sid, SelIdx(args1[1], Len(self.sid)))
                     fid == Take(self.fid, SelIdx(args1[2], Len(self.fid)))
                 IN HollowSamples__init__(Some(<<Len(sid), Len(fid)>>),
                                          Some(sid), Some(fid))

-----------------------------------------------------------------------------
(* The caller of HollowSamples *)

MaxIds == 2       \* longest id vector, and largest dimension, the caller gives
MaxHollow == 3    \* HollowSamples objects of one run

\* the id vectors the caller gives
IdVectors == {[j \in 1..n |-> 6 + j] : n \in 0..MaxIds}

\* the shapes the caller gives: of two dimensions, of one, of three
Shapes ==
    {<<a, b>> : a \in 0..MaxIds, b \in 0..MaxIds}
    \cup {<<MaxIds>>, <<1, MaxIds, 1>>}

Optional(S) == {None} \cup {Some(v) : v \in S}

\* the index expressions the caller gives for the columns
ColumnSelectors(n) ==
    {SelInt(-1) : j \in {n} \ {0}}
    \cup {SelSlice(0, n), AltMask(n)}
    \cup {Reversed(n) : j \in {n} \ {0}}

\* the tuples of index expressions the caller indexes object o with
HollowArgs(o) ==
    {<<>>}
    \cup {<<r>> : r \in Selectors(Len(o.sid))}
    \cup {<<r, c>> : r \in Selectors(Len(o.sid)),
                     c \in ColumnSelectors(Len(o.fid))}
    \cup {<<SelSlice(0, Len(o.sid)), SelSlice(0, Len(o.fid)), SelInt(0)>>}

InitHollow ==
    /\ heap = <<>>
    /\ held = {}
    /\ dss = <<>>
    /\ hollow = <<>>
    /\ event = [op |-> "init", raised |-> ""]

\* HollowSamples(shape, sid, fid)
DoHollowInit(shape, sid, fid) ==
    LET r == HollowSamples__init__(shape, sid, fid)
    IN /\ hollow = <<>>
       /\ hollow' = IF r.raised = "" THEN <<r.self>> ELSE hollow
       /\ event' = [op |-> "HollowSamples", shape |-> shape, sid |-> sid,
                    fid |-> fid, raised |-> r.raised, ret |-> r.self]
       /\ UNCHANGED <<heap, held, dss>>

\* hollow[k][args]
DoHollowGetitem(k, args) ==
    LET r == HollowSamples__getitem__(hollow[k], args)
    IN /\ Len(hollow) < MaxHollow
       /\ hollow' = IF r.raised = "" THEN Append(hollow, r.self) ELSE hollow
       /\ event' = [op |-> "getitem", src |-> k, self |-> hollow[k],
                    args |-> args, raised |-> r.raised, ret |-> r.self]
       /\ UNCHANGED <<heap, held, dss>>

NextHollow ==
    \/ \E shape \in Optional(Shapes), sid \in Optional(IdVectors),
          fid \in Optional(IdVectors) : DoHollowInit(shape, sid, fid)
    \/ \E k \in 1..Len(hollow) :
          \E args \in HollowArgs(hollow[k]) : DoHollowGetitem(k, args)

SpecHollow == InitHollow /\ [][NextHollow]_vars

-----------------------------------------------------------------------------
(* Claims about HollowSamples *)

\* C8: constructing a HollowSamples fails with a ValueError when the shape
\* is absent and the row ids and the column ids are not both given, when the
\* shape has not exactly two dimensions, and when the shape disagrees with
\* the length of a given row-id vector or of a given column-id vector; in
\* every other case it succeeds.
C8_ConstructionErrors ==
    event.op = "HollowSamples" =>
       LET shape == event.shape
           sid == event.sid
           fid == event.fid
           misconfigured ==
              \/ ~shape.some /\ ~(sid.some /\ fid.some)
              \/ shape.some /\ Len(shape.val) # 2
              \/ /\ shape.some /\ Len(shape.val) = 2
                 /\ \/ sid.some /\ Len(sid.val) # shape.val[1]
                    \/ fid.some /\ Len(fid.val) # shape.val[2]
       IN IF misconfigured THEN event.raised = "ValueError"
          ELSE event.raised = ""

\* C9: indexing a HollowSamples with 0, 1 or 2 index expressions succeeds
\* and returns a new object of two dimensions whose row ids are the
\* receiver's selected by the first expression (all when absent) and whose
\* column ids are the receiver's selected by the second (all when absent);
\* an integer keeps exactly one; the receiver is unchanged; and shape is
\* (number of row ids, number of column ids).
C9_IndexingSucceeds ==
    (event.op = "getitem" /\ Len(event.args) <= 2) =>
       LET self == event.self
           args == event.args
           rows == IF Len(args) >= 1 THEN args[1]
                   ELSE SelSlice(0, Len(self.sid))
           cols == IF Len(args) >= 2 THEN args[2]
                   ELSE SelSlice(0, Len(self.fid))
       IN /\ event.raised = ""
          /\ event.ret = hollow[Len(hollow)]
          /\ Len(hollow) > event.src
          /\ event.ret.sid = Take(self.sid, SelIdx(rows, Len(self.sid)))
          /\ event.ret.fid = Take(self.fid, SelIdx(cols, Len(self.fid)))
          /\ rows.kind = "int" => Len(event.ret.sid) = 1
          /\ cols.kind = "int" => Len(event.ret.fid) = 1
          /\ hollow[event.src] = self
          /\ Len(HollowSamples_shape(event.ret)) = 2
          /\ HollowSamples_shape(event.ret)
                = <<Len(event.ret.sid), Len(event.ret.fid)>>

\* what C9 says of 1 or 2 index expressions alone
IndexingOneOrTwo ==
    (event.op = "getitem" /\ Len(event.args) = 0) \/ C9_IndexingSucceeds


-----------------------------------------------------------------------------
(* Dataset.from_wizard and Dataset.from_channeltimeseries.  A samples      *)
(* array is known by its shape; an array of values is a record of its      *)
(* shape and its rows.                                                     *)

\* _expand_attribute(attr, length, attr_name): a scalar is repeated length
\* times, a sequence must have that length
_expand_attribute(attr, length) ==
    IF attr.scalar
    THEN [raised |-> "",
          value |-> [len |-> length, v |-> [j \in 1..length |-> attr.val[1]]]]
    ELSE IF Len(attr.val) # length
    THEN [raised |-> "ValueError", value |-> Absent]
    ELSE [raised |-> "", value |-> [len |-> length, v |-> attr.val]]

\* mask_mapper(mask, space=space): a chain of a flatten mapper for the shape
\* of the mask and a selection of the non-zero elements of the flat mask
mask_mapper(h, mask, space) ==
    LET h1 == h \o <<FlattenMapper(mask.shape, space),
                     StaticFeatureSelection(SelMask(mask.bits),
                                            <<Prod(mask.shape)>>)>>
    IN [heap |-> Append(h1, ChainMapper(<<Len(h) + 1, Len(h) + 2>>)),
        ref |-> Len(h) + 3]

\* what a call that raised exc leaves
Failed(exc, h) ==
    [raised |-> exc, heap |-> h, ds |-> NewDataset(0, <<>>), calls |-> <<>>]

\* flatten when the flag is set explicitly
NeedsFlattenExplicit(samples, mapper, flatten) ==
    Len(samples) > 2 /\ flatten.some /\ flatten.val

\* whether from_wizard flattens samples that come without a mask
NeedsFlatten(samples, mapper, flatten) ==
    Len(samples) > 2
       /\ \/ ~flatten.some /\ mapper = NoMapper
          \/ flatten.some /\ flatten.val

\* the value of the one element of S: names a value that is computed once
The(S) == CHOOSE x \in S : TRUE

\* from_wizard in which a set flatten flag wins over the mask
ApplyMaskFlattenWins(h, ds, samples, mask, mapper, flatten, space) ==
    IF ~mask.some \/ (flatten.some /\ flatten.val)
    THEN IF NeedsFlatten(samples, mapper, flatten)
         THEN The({get_mapped(h1, ds, Len(h1), TRUE) :
                     h1 \in {Append(h, FlattenMapper(Tail(samples), space))}})
         ELSE [raised |-> "", heap |-> h, ds |-> ds, calls |-> <<>>]
    ELSE The({IF mask.val.shape # ds.fshape
              THEN Failed("ValueError", mm.heap)
              ELSE get_mapped(mm.heap, ds, mm.ref, TRUE) :
                 mm \in {mask_mapper(h, mask.val, space)}})

\* from_wizard, the mask: samples without a mask are flattened if need be,
\* samples with a mask go through the trained mask mapper
ApplyMask(h, ds, samples, mask, mapper, flatten, space) ==
    IF ~mask.some
    THEN IF NeedsFlatten(samples, mapper, flatten)
         THEN The({get_mapped(h1, ds, Len(h1), TRUE) :
                     h1 \in {Append(h, FlattenMapper(Tail(samples), space))}})
         ELSE [raised |-> "", heap |-> h, ds |-> ds, calls |-> <<>>]
    ELSE The({IF mask.val.shape # ds.fshape
              THEN Failed("ValueError", mm.heap)
              ELSE get_mapped(mm.heap, ds, mm.ref, TRUE) :
                 mm \in {mask_mapper(h, mask.val, space)}})

\* from_wizard, the generic mapper: it maps what the step before made
ApplyMapper(step, mapper, compat) ==
    IF step.raised # "" \/ mapper = NoMapper THEN step
    ELSE The({[r EXCEPT !.calls = step.calls \o @] :
                 r \in {get_mapped(step.heap, step.ds, mapper, compat)}})

\* Dataset.from_wizard(samples, targets, chunks, mask, mapper, flatten,
\* space); compat is the answer of the mask's selection should mapper be
\* merged into it
from_wizard(h, samples, targets, chunks, mask, mapper, flatten, space, compat) ==
    LET length == samples[1]
        none == [raised |-> "", value |-> Absent]
        t == IF targets.some THEN _expand_attribute(targets.val, length)
             ELSE none
        c == IF chunks.some THEN _expand_attribute(chunks.val, length)
             ELSE none
    IN IF t.raised # "" THEN Failed(t.raised, h)
       ELSE IF c.raised # "" THEN Failed(c.raised, h)
       ELSE The({The({ApplyMapper(step, mapper, compat) :
                        step \in {ApplyMask(h, ds, samples, mask, mapper,
                                            flatten, space)}}) :
                   ds \in {[NewDataset(length, Tail(samples)) EXCEPT
                              !.sa = [n \in AttrNames \cup {"targets", "chunks"}
                                        |-> CASE n = "targets" -> t.value
                                              [] n = "chunks" -> c.value
                                              [] OTHER -> Absent]]}})

\* np.arange(start, stop, step)
np_arange3(start, stop, step) ==
    LET n == IF step > 0 THEN -((start - stop) \div step)
             ELSE -((stop - start) \div (-step))
    IN [j \in 1..n |-> start + (j - 1) * step]

NoGrid == [shape |-> <<>>, rows |-> <<>>]

\* the timepoints of one channel, broadcast over all channels
TimeGrid(samples, t0, dt) ==
    IF dt = 0 THEN [raised |-> "ZeroDivisionError", grid |-> NoGrid]
    ELSE LET timepoints == np_arange3(t0, t0 + samples[3] * dt, dt)
         IN IF samples[2] = 0
            THEN \* np.vstack of no array
                 [raised |-> "ValueError", grid |-> NoGrid]
            ELSE [raised |-> "",
                  grid |-> [shape |-> <<samples[2], Len(timepoints)>>,
                            rows |-> [ch \in 1..samples[2] |-> timepoints]]]

\* the channel ids laid out as one array reshaped to channels x timepoints
ChannelGridTiled(samples, channelids) ==
    IF Len(channelids) # samples[2] \/ samples[3] = 0
    THEN [raised |-> "ValueError", grid |-> NoGrid]
    ELSE [raised |-> "",
          grid |-> [shape |-> <<samples[2], samples[3]>>,
                    rows |-> [ch \in 1..samples[2] |->
                               [t \in 1..samples[3] |->
                                  channelids[(((ch - 1) * samples[3] + t - 1)
                                              % samples[2]) + 1]]]]]

\* the channel ids, broadcast over all timepoints
ChannelGrid(samples, channelids) ==
    IF Len(channelids) # samples[2]
    THEN [raised |-> "ValueError", grid |-> NoGrid]
    ELSE IF samples[3] = 0
    THEN \* np.dstack of no array
         [raised |-> "ValueError", grid |-> NoGrid]
    ELSE [raised |-> "",
          grid |-> [shape |-> <<samples[2], samples[3]>>,
                    rows |-> [ch \in 1..samples[2] |->
                               [t \in 1..samples[3] |-> channelids[ch]]]]]

\* the rows of an array one after the other
Flatten1(rows) ==
    LET F[k \in 0..Len(rows)] ==
            IF k = 0 THEN <<>> ELSE F[k - 1] \o rows[k]
    IN F[Len(rows)]

\* forward1 of a flatten mapper: from_wizard gives three-dimensional samples
\* without mask and mapper no other mapper
forward1(m, grid) ==
    IF m.kind # "flatten" \/ m.dshape # grid.shape
    THEN [raised |-> "ValueError", value |-> Absent]
    ELSE [raised |-> "",
          value |-> [len |-> Prod(grid.shape), v |-> Flatten1(grid.rows)]]

\* from_channeltimeseries, the additional attributes of the dataset that
\* from_wizard made (w): each grid that is given is mapped and stored
AddGrids(w, timepoints, channelids) ==
    LET ft == forward1(w.heap[w.ds.mapper], timepoints)
        d1 == IF timepoints = NoGrid THEN [raised |-> "", ds |-> w.ds]
              ELSE IF ft.raised # "" THEN [raised |-> ft.raised, ds |-> w.ds]
              ELSE SetItem(w.ds, "fa", "timepoints", ft.value)
        fc == forward1(w.heap[w.ds.mapper], channelids)
    IN IF w.raised # "" THEN w
       ELSE The({IF d.raised # "" THEN Failed(d.raised, w.heap)
                 ELSE IF channelids = NoGrid THEN [w EXCEPT !.ds = d.ds]
                 ELSE IF fc.raised # "" THEN Failed(fc.raised, w.heap)
                 ELSE The({IF e.raised # "" THEN Failed(e.raised, w.heap)
                           ELSE [w EXCEPT !.ds = e.ds] :
                              e \in {SetItem(d.ds, "fa", "channels",
                                             fc.value)}}) :
                    d \in {d1}})

\* Dataset.from_channeltimeseries(samples, targets, chunks, t0, dt,
\* channelids)
from_channeltimeseries(h, samples, targets, chunks, t0, dt, channelids) ==
    IF Len(samples) # 3 THEN Failed("ValueError", h)
    ELSE
    LET nogrid == [raised |-> "", grid |-> NoGrid]
        timepoints == IF t0.some /\ dt.some
                      THEN TimeGrid(samples, t0.val, dt.val) ELSE nogrid
        chans == IF channelids.some
                 THEN ChannelGrid(samples, channelids.val) ELSE nogrid
    IN IF timepoints.raised # "" THEN Failed(timepoints.raised, h)
       ELSE IF chans.raised # "" THEN Failed(chans.raised, h)
       ELSE The({AddGrids(w, tg, cg) :
                   w \in {from_wizard(h, samples, targets, chunks, None,
                                      NoMapper, None, NoSpace, TRUE)},
                   tg \in {timepoints.grid}, cg \in {chans.grid}})

-----------------------------------------------------------------------------
(* The caller of the two constructors *)

MaxObs == 2          \* most observations of a samples array
MaxChannels == 3     \* longest second axis of a samples array
MaxTimepoints == 4   \* longest third axis of a samples array

\* the shapes of the samples arrays the caller gives: two-, three- and
\* four-dimensional
WizardShapes ==
    {<<n, f>> : n \in 1..MaxObs, f \in 1..MaxChannels}
    \cup {<<n, ch, t>> : n \in {1, MaxObs}, ch \in 0..MaxChannels,
                         t \in 0..MaxTimepoints}
    \cup {<<1, 2, 2, 2>>}

\* targets or chunks for n observations: none, a scalar, a sequence of n
\* values, a sequence of n+1
AttrArgs(n) ==
    {None, Some([scalar |-> TRUE, val |-> <<5>>]),
     Some([scalar |-> FALSE, val |-> [j \in 1..n |-> j]]),
     Some([scalar |-> FALSE, val |-> [j \in 1..(n + 1) |-> j]])}

\* the masks the caller gives for these samples: none, one of the shape of a
\* sample, one of another shape
MaskArgs(samples) ==
    {None,
     Some([shape |-> Tail(samples),
           bits |-> [k \in 1..Prod(Tail(samples)) |-> k % 2]]),
     Some([shape |-> <<Prod(Tail(samples)) + 1>>,
           bits |-> [k \in 1..(Prod(Tail(samples)) + 1) |-> 1]])}

\* the trained mappers the caller gives for these samples: for the samples
\* as they are, or for flattened samples
WizardMappers(samples) ==
    {OtherMapper(Tail(samples)), FlattenMapper(Tail(samples), NoSpace),
     StaticFeatureSelection(SelList(<<0>>), Tail(samples)),
     StaticFeatureSelection(SelList(<<0>>), <<Prod(Tail(samples))>>)}

\* the datasets of a result r, with what the caller knows of its mappers
Made(r) ==
    IF r.raised # "" THEN <<>>
    ELSE <<[r.ds EXCEPT !.hist = [k \in 1..Len(r.calls) |-> r.calls[k].m]]>>

InitWizard ==
    /\ heap = <<>>
    /\ held = {}
    /\ dss = <<>>
    /\ hollow = <<>>
    /\ event = [op |-> "init", raised |-> ""]

\* Dataset.from_wizard(samples, targets, chunks, mask, mapper, flatten,
\* space), mapper being a mapper the caller made before (user) or None
DoFromWizard(samples, targets, chunks, mask, user, flatten, space, compat) ==
    LET h == IF user.some THEN <<user.val>> ELSE <<>>
        mapper == IF user.some THEN 1 ELSE NoMapper
        r == from_wizard(h, samples, targets, chunks, mask, mapper, flatten,
                         space, compat)
    IN /\ heap' = r.heap
       /\ held' = DOMAIN h
       /\ dss' = Made(r)
       /\ event' = [op |-> "from_wizard", samples |-> samples,
                    targets |-> targets, chunks |-> chunks, mask |-> mask,
                    mapper |-> user, flatten |-> flatten, space |-> space,
                    raised |-> r.raised, calls |-> r.calls]
       /\ UNCHANGED hollow

\* Dataset.from_channeltimeseries(samples, targets, chunks, t0, dt,
\* channelids)
DoFromChannelTimeseries(samples, targets, chunks, t0, dt, channelids) ==
    LET r == from_channeltimeseries(<<>>, samples, targets, chunks, t0, dt,
                                    channelids)
    IN /\ heap' = r.heap
       /\ dss' = Made(r)
       /\ event' = [op |-> "from_channeltimeseries", samples |-> samples,
                    targets |-> targets, chunks |-> chunks, t0 |-> t0,
                    dt |-> dt, channelids |-> channelids,
                    raised |-> r.raised, calls |-> r.calls]
       /\ UNCHANGED <<held, hollow>>

\* the caller makes one dataset
NextWizard ==
    \/ /\ dss = <<>> /\ event.op = "init"
       /\ \E samples \in WizardShapes :
          \E targets \in AttrArgs(samples[1]),
             chunks \in AttrArgs(samples[1]) \ {Some([scalar |-> FALSE,
                              val |-> [j \in 1..samples[1] |-> j]])},
             mask \in MaskArgs(samples),
             user \in Optional(WizardMappers(samples)),
             flatten \in Optional(BOOLEAN),
             space \in {NoSpace, "voxel"} :
                \E compat \in IF mask.some /\ user.some
                                 /\ user.val.kind = "sfs"
                              THEN BOOLEAN ELSE {TRUE} :
                   DoFromWizard(samples, targets, chunks, mask, user,
                                flatten, space, compat)
    \/ /\ dss = <<>> /\ event.op = "init"
       /\ \E samples \in WizardShapes :
          \E targets \in AttrArgs(samples[1]) \ {Some([scalar |-> FALSE,
                              val |-> [j \in 1..samples[1] |-> j]])},
             chunks \in {None, Some([scalar |-> TRUE, val |-> <<5>>])},
             t0 \in Optional({0, 1}),
             dt \in Optional({-1, 0, 1, 2}),
             channelids \in Optional({[j \in 1..n |-> 10 + j] :
                              n \in {samples[2], samples[2] + 1}}) :
                DoFromChannelTimeseries(samples, targets, chunks, t0, dt,
                                        channelids)

SpecWizard == InitWizard /\ [][NextWizard]_vars

-----------------------------------------------------------------------------
(* Claims about the two constructors *)

\* the dataset from_wizard or from_channeltimeseries returned
Result == dss[1]

\* C6 as stated: from_wizard on three-dimensional samples with no mask and
\* no flatten flag returns a two-dimensional dataset whose number of
\* features is the product of the second and third axis, whatever the
\* targets, chunks, user mapper and space are.
C6_AutoFlatten ==
    (event.op = "from_wizard" /\ event.raised = ""
        /\ Len(event.samples) = 3 /\ ~event.mask.some /\ ~event.flatten.some)
    => Result.fshape = <<event.samples[2] * event.samples[3]>>

\* C6 amended: from_wizard on three-dimensional samples with no mask, no
\* flatten flag and no user mapper returns a two-dimensional dataset whose
\* number of features is the product of the second and third axis, whatever
\* the targets, chunks and space are; with a user mapper the samples are not
\* flattened before the user mapper, and only the user mapper, maps them.
C6_AutoFlattenNoMapper ==
    (event.op = "from_wizard" /\ event.raised = ""
        /\ Len(event.samples) = 3 /\ ~event.mask.some /\ ~event.flatten.some)
    => IF ~event.mapper.some
       THEN /\ Result.fshape = <<event.samples[2] * event.samples[3]>>
            /\ Len(event.calls) = 1
            /\ event.calls[1].mrec
                  = FlattenMapper(Tail(event.samples), event.space)
       ELSE /\ Len(event.calls) = 1
            /\ event.calls[1].mrec = event.mapper.val
            /\ Result.fshape
                  = NodeShape(event.mapper.val, Tail(event.samples))

C6_Witness ==
    /\ event.op = "from_wizard" /\ event.raised = ""
    /\ event.samples = <<MaxObs, 2, 3>>
    /\ ~event.mask.some /\ ~event.flatten.some /\ ~event.mapper.some
    /\ event.targets.some /\ event.space = "voxel"
    /\ Result.fshape = <<6>>

\* C7: from_channeltimeseries on samples of shape (N, C, T) with t0, dt and
\* C channel ids returns a dataset of C*T features in which the feature at
\* position c*T + t has the timepoint t0 + t*dt and the channel
\* channelids[c].
C7_ChannelTimeGrid ==
    (event.op = "from_channeltimeseries" /\ event.raised = ""
        /\ event.t0.some /\ event.dt.some /\ event.channelids.some)
    => LET C == event.samples[2]
           T == event.samples[3]
           timepoints == Result.fa["timepoints"]
           channels == Result.fa["channels"]
       IN /\ Result.fshape = <<C * T>>
          /\ Len(event.channelids.val) = C
          /\ timepoints.len = C * T /\ Len(timepoints.v) = C * T
          /\ channels.len = C * T /\ Len(channels.v) = C * T
          /\ \A ch \in 0..(C - 1), t \in 0..(T - 1) :
                /\ timepoints.v[ch * T + t + 1]
                      = event.t0.val + t * event.dt.val
                /\ channels.v[ch * T + t + 1] = event.channelids.val[ch + 1]

C7_Witness ==
    /\ event.op = "from_channeltimeseries" /\ event.raised = ""
    /\ event.samples = <<MaxObs, 3, 4>>
    /\ event.t0 = Some(0) /\ event.dt = Some(1) /\ event.channelids.some
    /\ Range(Result.fa["timepoints"].v) = {0, 1, 2, 3}
    /\ Result.fa["timepoints"].v = <<0, 1, 2, 3, 0, 1, 2, 3, 0, 1, 2, 3>>
    /\ Result.fa["channels"].v
          = <<11, 11, 11, 11, 12, 12, 12, 12, 13, 13, 13, 13>>


-----------------------------------------------------------------------------
(* Errors *)

\* what is seen of dataset d's 'mapper' attribute: whether it is a chain,
\* and its nodes by value
MapperView(h, d) ==
    [chain |-> IsChain(h, d.mapper), nodes |-> NodeRecs(h, d.mapper)]

\* dataset e is as dataset d was: the attributes of the three collections
\* and the 'mapper' attribute
SameState(h, d, g, e) ==
    /\ e.sa = d.sa /\ e.fa = d.fa /\ e.a = d.a
    /\ (e.mapper = NoMapper) = (d.mapper = NoMapper)
    /\ MapperView(g, e) = MapperView(h, d)

\* C11: when get_mapped or _append_mapper raises, the dataset it was called
\* on is as it was before the call: the same attributes in the three
\* collections and the same 'mapper' attribute, not promoted to a chain and
\* with no node added or merged.
C11_ErrorsLeaveDataset ==
    [][(event'.op \in {"append", "get_mapped"} /\ event'.raised # "")
          => SameState(heap, dss[event'.src], heap', dss'[event'.src])]_vars

\* the same of get_mapped alone, which works on the dataset it makes
GetMappedErrorsLeaveDataset ==
    [][(event'.op = "get_mapped" /\ event'.raised # "")
          => SameState(heap, dss[event'.src], heap', dss'[event'.src])]_vars

\* a call of _append_mapper raised and left the bare mapper in a chain
PromotedByFailedAppend ==
    /\ event.op = "append" /\ event.raised = "IndexError"
    /\ ~event.calls[1].prechain
    /\ IsChain(heap, dss[event.src].mapper)


-----------------------------------------------------------------------------
(* Dataset.idhash.  A string is the sequence of its characters here, so     *)
(* that concatenation and sorting are what they are for strings.  The name *)
(* of an attribute is such a string, and the value of an attribute carries *)
(* its fingerprint, the string idhash_ makes of it, in v.                  *)

\* the code point of a character of a name
Ord(ch) == CASE ch = "a" -> 97 [] ch = "b" -> 98 [] OTHER -> 0

\* s < t for strings
LexLess(s, t) ==
    \E k \in 1..(Len(t)) :
       /\ \A j \in 1..(k - 1) : j <= Len(s) /\ s[j] = t[j]
       /\ \/ k = Len(s) + 1
          \/ k <= Len(s) /\ Ord(s[k]) < Ord(t[k])

\* keys.sort(): insertion of one key after the other into a sorted list
Sorted(keys) ==
    LET Insert(l, k) ==
            LET n == Cardinality({j \in 1..Len(l) : LexLess(l[j], k)})
            IN SubSeq(l, 1, n) \o <<k>> \o SubSeq(l, n + 1, Len(l))
        F[i \in 0..Len(keys)] ==
            IF i = 0 THEN <<>> ELSE Insert(F[i - 1], keys[i])
    IN F[Len(keys)]

\* idhash_(val) of the value of an attribute
idhash_(value) == value.v

\* ' %s@%s' % (k, idhash_(col[k].value)) for the keys in the order given
Entries(col, keys) ==
    LET F[i \in 0..Len(keys)] ==
            IF i = 0 THEN <<>>
            ELSE F[i - 1] \o <<" ">> \o keys[i] \o <<"@">>
                          \o idhash_(col[keys[i]])
    IN F[Len(keys)]

\* idhash with the keys as the collections give them
IdhashUnsorted(d, self, samples, keys) ==
    <<"s", "e", "l", "f", "@">> \o self
       \o <<" ", "s", "a", "m", "p", "l", "e", "s", "@">> \o samples
       \o Entries(d.a, keys.a) \o Entries(d.sa, keys.sa)
       \o Entries(d.fa, keys.fa)

\* Dataset.idhash: self and samples are the fingerprints of the dataset
\* object and of its samples, keys what col.keys() gives for each collection
idhash(d, self, samples, keys) ==
    <<"s", "e", "l", "f", "@">> \o self
       \o <<" ", "s", "a", "m", "p", "l", "e", "s", "@">> \o samples
       \o Entries(d.a, Sorted(keys.a)) \o Entries(d.sa, Sorted(keys.sa))
       \o Entries(d.fa, Sorted(keys.fa))


-----------------------------------------------------------------------------
(* The caller of idhash: it sets attributes, asks for the idhash, sets one *)
(* more attribute and asks again                                           *)

MaxAttrs == 2     \* attributes the dataset holds, in all collections

\* the names of the attributes
HashNames == {<<"a">>, <<"a", "b">>, <<"b">>}

\* the fingerprints of the values, of the dataset and of its samples
Fingerprints == {<<"1">>, <<"1", "2">>, <<"2">>}

\* the names a collection holds
Keys(col) == {n \in DOMAIN col : col[n] # Absent}

\* col.keys(): the names in an order the caller cannot choose
KeyOrders(col) ==
    {o \in [1..Cardinality(Keys(col)) -> Keys(col)] :
        \A i, j \in DOMAIN o : i # j => o[i] # o[j]}

\* a dataset without attributes whose collections take these names
HashDataset ==
    [NewDataset(NRows, <<NCols>>) EXCEPT
        !.sa = [n \in HashNames |-> Absent],
        !.fa = [n \in HashNames |-> Absent],
        !.a = [n \in HashNames |-> Absent]]

NotHashed == [some |-> FALSE]

InitHash ==
    /\ heap = <<>>
    /\ held = {}
    /\ dss = <<HashDataset>>
    /\ hollow = <<>>
    /\ event = [op |-> "init", last |-> NotHashed, before |-> NotHashed,
                again |-> <<>>]

\* dss[1].<col>[name] = value
DoHashSet(col, name, fp) ==
    LET d == dss[1]
        value == [len |-> IF col = "a" THEN 1 ELSE ColLength(d, col),
                  v |-> fp]
        r == SetItem(d, col, name, value)
        held_now == Cardinality(Keys(d.sa)) + Cardinality(Keys(d.fa))
                       + Cardinality(Keys(d.a))
    IN /\ Has(d[col], name) \/ held_now < MaxAttrs
       /\ r.raised = ""
       /\ dss' = <<r.ds>>
       /\ event' = [event EXCEPT !.op = "set", !.again = <<>>]
       /\ UNCHANGED <<heap, held, hollow>>

\* dss[1].idhash, read twice: the collections give their keys in the orders
\* keys the first time and in the orders keys2 the second time
DoIdhash(self, samples, keys, keys2) ==
    LET d == dss[1]
    IN /\ event' = [op |-> "idhash", before |-> event.last,
                    last |-> Some([ds |-> d, self |-> self,
                                   samples |-> samples,
                                   str |-> idhash(d, self, samples, keys)]),
                    again |-> idhash(d, self, samples, keys2)]
       /\ UNCHANGED <<heap, held, dss, hollow>>

KeyChoices(d) ==
    {[a |-> oa, sa |-> osa, fa |-> ofa] :
        oa \in KeyOrders(d.a), osa \in KeyOrders(d.sa),
        ofa \in KeyOrders(d.fa)}

NextHash ==
    \/ /\ ~event.before.some
       /\ event.op # "set" \/ ~event.last.some
       /\ \E col \in {"sa", "fa", "a"}, name \in HashNames,
             fp \in Fingerprints : DoHashSet(col, name, fp)
    \/ /\ ~event.before.some
       /\ \E self \in {<<"7">>}, samples \in {<<"1">>, <<"9">>} :
             \E keys \in KeyChoices(dss[1]), keys2 \in KeyChoices(dss[1]) :
                DoIdhash(self, samples, keys, keys2)

SpecHash == InitHash /\ [][NextHash]_vars

-----------------------------------------------------------------------------
(* Claims about idhash *)

\* the attributes of dataset e are those of dataset d but for the value of
\* one, which has another fingerprint
OneValueReplaced(d, e) ==
    \E col \in {"sa", "fa", "a"}, name \in HashNames :
       /\ Has(d[col], name) /\ Has(e[col], name)
       /\ idhash_(d[col][name]) # idhash_(e[col][name])
       /\ \A c \in {"sa", "fa", "a"}, n \in HashNames :
             (c # col \/ n # name) => e[c][n] = d[c][n]

\* C12: idhash read twice with no mutation in between gives the same
\* string, whatever the order in which the collections give their keys; and
\* after the value of one attribute was replaced by one with another
\* fingerprint, the fingerprints of the dataset and its samples being the
\* same, idhash gives another string.
C12_IdhashDeterministic ==
    event.op = "idhash" =>
       /\ event.again = event.last.val.str
       /\ event.before.some =>
             LET b == event.before.val
                 l == event.last.val
             IN /\ (b.ds = l.ds /\ b.self = l.self /\ b.samples = l.samples)
                      => b.str = l.str
                /\ (OneValueReplaced(b.ds, l.ds) /\ b.self = l.self
                      /\ b.samples = l.samples) => b.str # l.str

\* idhash was read of a dataset with two attributes in one collection,
\* and read again after the value of one of them was replaced
C12_Witness ==
    /\ event.op = "idhash" /\ event.before.some
    /\ OneValueReplaced(event.before.val.ds, event.last.val.ds)
    /\ event.before.val.self = event.last.val.self
    /\ event.before.val.samples = event.last.val.samples
    /\ Keys(event.last.val.ds.sa) = {<<"a", "b">>, <<"b">>}
    /\ event.last.val.str # event.before.val.str
    /\ event.again = event.last.val.str


-----------------------------------------------------------------------------
(* The order in which from_wizard records mappers *)

\* the mapper of a call of _append_mapper that from_wizard made: the
\* caller's ("user"), or the flatten mapper or the mask mapper that
\* from_wizard made itself
RecordedKind(c) ==
    IF event.mapper.some /\ c.m = 1 THEN "user"
    ELSE IF c.mrec.kind = "flatten" THEN "flatten"
    ELSE IF c.mrec.kind = "chain" THEN "mask"
    ELSE "?"

\* what from_wizard recorded, in the order of the calls
RecordedKinds == [k \in 1..Len(event.calls) |-> RecordedKind(event.calls[k])]

\* what the arguments of from_wizard say it records
ExpectedKinds ==
    (IF event.mask.some THEN <<"mask">>
     ELSE IF /\ Len(event.samples) > 2
             /\ \/ event.flatten = Some(TRUE)
                \/ ~event.flatten.some /\ ~event.mapper.some
     THEN <<"flatten">> ELSE <<>>)
    \o (IF event.mapper.some THEN <<"user">> ELSE <<>>)

\* C13: from_wizard records mappers in an order its arguments decide: its
\* own flatten mapper exactly when there is no mask, the samples have more
\* than two dimensions and flatten is true or flatten is unset and there is
\* no user mapper; the mask mapper exactly when there is a mask; never both;
\* and the user mapper, if given, last. A call that raises has recorded a
\* prefix of that order, and the user mapper ends the chain of a returned
\* dataset unless it was merged into a selection before it.
C13_RecordingOrder ==
    event.op = "from_wizard" =>
       /\ event.raised = "" => RecordedKinds = ExpectedKinds
       /\ Len(RecordedKinds) <= Len(ExpectedKinds)
       /\ \A k \in DOMAIN RecordedKinds : RecordedKinds[k] = ExpectedKinds[k]
       /\ ~("flatten" \in Range(RecordedKinds)
              /\ "mask" \in Range(RecordedKinds))
       /\ (event.raised = "" /\ event.mapper.some) =>
             \/ Last(ChainNodes(heap, Result.mapper)) = 1
             \/ /\ Last(event.calls).prelast.kind = "sfs"
                /\ event.mapper.val.kind = "sfs"
                /\ Last(event.calls).compat

\* from_wizard returned a dataset of samples of three dimensions for which
\* it was given a mask, a user mapper and a true flatten flag
C13_Witness ==
    /\ event.op = "from_wizard" /\ event.raised = ""
    /\ Len(event.samples) = 3
    /\ event.mask.some /\ event.mapper.some /\ event.flatten = Some(TRUE)
    /\ RecordedKinds = <<"mask", "user">>
    /\ Len(ChainNodes(heap, Result.mapper)) = 3

\* from_wizard returned a dataset for which it recorded its own flatten
\* mapper and then the user mapper
FlattenThenUser ==
    /\ event.op = "from_wizard" /\ event.raised = ""
    /\ RecordedKinds = <<"flatten", "user">>


-----------------------------------------------------------------------------
(* Who owns the mappers of a chain *)

\* the step records a mapper on the dataset that get_mapped has just
\* returned
RecordsOnMapped ==
    /\ event.op = "get_mapped" /\ event.raised = ""
    /\ event'.op = "append" /\ event'.src = event.res

\* a dataset other than dss[k] holds the mapper object m
HeldByOther(k, m) ==
    \E j \in 1..Len(dss) :
       j # k /\ m \in Range(ChainNodes(heap, dss[j].mapper))

\* the chain observed through the dataset that was mapped stays as it is
SourceChainKept ==
    [][RecordsOnMapped
          => MapperView(heap', dss'[event.src])
                = MapperView(heap, dss[event.src])]_vars

\* the caller's mapper stays as the other datasets that hold it see it
CallerMapperKept ==
    [][RecordsOnMapped
          => (HeldByOther(event.res, event.calls[1].m)
                => heap'[event.calls[1].m] = heap[event.calls[1].m])]_vars

\* C14: each dataset owns its mapper chain alone: after ds2 =
\* ds.get_mapped(m), recording a further mapper on ds2, be it merged in
\* place into a static feature selection at the end of the chain or
\* appended, changes neither the chain observed through ds (its length and
\* the selection of each element) nor the mapper object m as the other
\* datasets that hold it see it.
C14_ExclusiveChain ==
    [][RecordsOnMapped
          => /\ MapperView(heap', dss'[event.src])
                   = MapperView(heap, dss[event.src])
             /\ HeldByOther(event.res, event.calls[1].m)
                   => heap'[event.calls[1].m] = heap[event.calls[1].m]]_vars

=============================================================================
